---- MODULE Spec2Model ----
(***************************************************************************)
(* Landlock sandbox binding (src/sandbox/src/lib.rs).                      *)
(*                                                                         *)
(* The module models the two entry points of the binding,                  *)
(* is_landlock_supported and apply_sandbox, together with the helper       *)
(* add_fs_rule, as a state machine over the calling process's enforcement  *)
(* state.  The landlock crate and the kernel are the environment: a        *)
(* declaration (handle_access) succeeds or fails according to the feature  *)
(* level of the running kernel, create() and restrict_self() succeed or    *)
(* fail as the kernel decides, and restrict_self() reports one of the      *)
(* three RulesetStatus values.                                             *)
(***************************************************************************)
EXTENDS Integers, Sequences, FiniteSets, TLC

(***************************************************************************)
(* Bounds of the model.                                                    *)
(***************************************************************************)
\* total number of path entries over fs.read, fs.write and fs.execute
MaxEntries == 3
\* highest feature level a modelled kernel provides (0 = no Landlock)
MaxKernelAbi == 5
\* TCP ports are 0..MaxPort (0 is the documented "all ports" value)
MaxPort == 1
\* StackSpec: number of layers the process stacks
MaxLayers == 2

(***************************************************************************)
(* Program constants.                                                      *)
(***************************************************************************)
\* let abi = ABI::V5;
LibAbi == 5
\* let network_supported = abi_version >= 4;
NetAbi == 4

(***************************************************************************)
(* Option<T>: None is the empty sequence, Some(x) the one-element one.     *)
(***************************************************************************)
None == << >>
Some(x) == << x >>
IsSome(o) == o # << >>
Unwrap(o) == o[1]

(***************************************************************************)
(* The host filesystem the configured paths are resolved against.          *)
(*   present    : exists() is true, PathFd::new and add_rule succeed       *)
(*   absent     : exists() is false                                        *)
(*   unopenable : exists() is true, PathFd::new fails                      *)
(***************************************************************************)
Paths == {"/work", "/absent", "/locked"}

PathState(p) ==
    CASE p = "/work"   -> "present"
      [] p = "/absent" -> "absent"
      [] OTHER         -> "unopenable"

Ports == 0..MaxPort

(***************************************************************************)
(* Access rights.                                                          *)
(***************************************************************************)
\* AccessFs::from_all(abi): the filesystem rights known at level abi
AccessFsFromAll(abi) ==
    (IF abi >= 1
       THEN {"Execute", "WriteFile", "ReadFile", "ReadDir", "RemoveDir",
             "RemoveFile", "MakeChar", "MakeDir", "MakeReg", "MakeSock",
             "MakeFifo", "MakeBlock", "MakeSym"}
       ELSE {})
    \cup (IF abi >= 2 THEN {"Refer"} ELSE {})
    \cup (IF abi >= 3 THEN {"Truncate"} ELSE {})
    \cup (IF abi >= 5 THEN {"IoctlDev"} ELSE {})

\* AccessFs::ReadFile | AccessFs::ReadDir
ReadAccess == {"ReadFile", "ReadDir"}

\* a write set that leaves out the last flag of the expression
WriteAccess_short ==
    {"ReadFile", "ReadDir", "WriteFile", "RemoveFile", "RemoveDir",
     "MakeChar", "MakeDir", "MakeReg", "MakeSock", "MakeFifo", "MakeBlock",
     "MakeSym"}

\* let write_access = AccessFs::ReadFile | ... | AccessFs::Truncate;
WriteAccess ==
    {"ReadFile", "ReadDir", "WriteFile", "RemoveFile", "RemoveDir",
     "MakeChar", "MakeDir", "MakeReg", "MakeSock", "MakeFifo", "MakeBlock",
     "MakeSym", "Truncate"}

\* AccessFs::Execute | AccessFs::ReadFile
ExecuteAccess == {"Execute", "ReadFile"}

(***************************************************************************)
(* Configurations: SandboxConfig { fs: Option<FsConfig>,                   *)
(* net: Option<NetConfig> }.                                               *)
(***************************************************************************)
RECURSIVE SeqsUpTo(_, _)
SeqsUpTo(S, n) ==
    IF n <= 0 THEN {<< >>}
    ELSE LET shorter == SeqsUpTo(S, n - 1)
         IN  shorter \cup {Append(s, x) : s \in shorter, x \in S}

\* Option<Vec<String>> holding at most n paths
OptLists(n) == {None} \cup {Some(l) : l \in SeqsUpTo(Paths, n)}

OptLen(o) == IF IsSome(o) THEN Len(Unwrap(o)) ELSE 0

\* FsConfig values holding at most n path entries in all
FsConfigs(n) ==
    UNION {UNION {{[read |-> r, write |-> w, execute |-> x] :
                      x \in OptLists(n - OptLen(r) - OptLen(w))} :
                  w \in OptLists(n - OptLen(r))} :
           r \in OptLists(n)}

\* NetConfig values: connect_ports absent, or one port
NetConfigs ==
    {[connect_ports |-> None]} \cup {[connect_ports |-> Some(<< p >>)] : p \in Ports}

SandboxConfigs(n) ==
    {[fs |-> f, net |-> t] :
        f \in {None} \cup {Some(c) : c \in FsConfigs(n)},
        t \in {None} \cup {Some(c) : c \in NetConfigs}}

NoConfig == [fs |-> None, net |-> None]

Roles == {"read", "write", "execute"}

\* FsConfig naming one path under one role
OneRule(role, p) ==
    [read    |-> IF role = "read" THEN Some(<< p >>) ELSE None,
     write   |-> IF role = "write" THEN Some(<< p >>) ELSE None,
     execute |-> IF role = "execute" THEN Some(<< p >>) ELSE None]

\* the policies of StackSpec: no fs field, or one path under one role;
\* no net field, or one without a port list
StackConfigs ==
    {[fs |-> f, net |-> t] :
        f \in {None} \cup {Some(OneRule(role, p)) : role \in Roles, p \in Paths},
        t \in {None, Some([connect_ports |-> None])}}

\* the list of one role, empty when absent (if let Some(..) = &fs_config.read)
RoleList(cfg, role) ==
    IF ~IsSome(cfg.fs) THEN << >>
    ELSE LET o == CASE role = "read"  -> Unwrap(cfg.fs).read
                    [] role = "write" -> Unwrap(cfg.fs).write
                    [] OTHER          -> Unwrap(cfg.fs).execute
         IN  IF IsSome(o) THEN Unwrap(o) ELSE << >>

Range(s) == {s[i] : i \in 1..Len(s)}

(***************************************************************************)
(* The landlock crate and the kernel.                                      *)
(***************************************************************************)
\* Ruleset::default()
DefaultRuleset ==
    [handledFs |-> {}, handledNet |-> FALSE,
     rules |-> [p \in Paths |-> {}], netRules |-> {}]

\* handle_access(AccessFs::from_all(abi)) is accepted by a kernel with Landlock
HandleAccessFsOk(kernel) == kernel >= 1

\* handle_access(AccessNet::from_all(abi)) is accepted from level 4 on
HandleAccessNetOk(kernel) == kernel >= NetAbi

\* outcomes of create(): Ok or Err
CreateOutcomes == {"Ok", "Err"}

\* outcomes of restrict_self(): Err, or Ok with a RulesetStatus
CommitOutcomes == {"Err", "FullyEnforced", "PartiallyEnforced", "NotEnforced"}

\* one call into the crate (or of add_fs_rule), as recorded in the call
\* trace, with whether it returned Ok
Call(op, arg, role, ok) == [op |-> op, arg |-> arg, role |-> role, ok |-> ok]

VARIABLES
    kernelAbi,  \* feature level of the running kernel, 0 = no Landlock
    layers,     \* the process's enforcement state: the committed rulesets
    pc,         \* position inside apply_sandbox, "idle" between calls
    config,     \* argument of the current (or last) apply_sandbox call
    ruleset,    \* the ruleset object under construction
    status,     \* outcome of restrict_self in the current (or last) call
    result,     \* return value of the last apply_sandbox call
    trace,      \* crate calls made by the current (or last) apply_sandbox call
    support     \* return value of the last is_landlock_supported call

vars == <<kernelAbi, layers, pc, config, ruleset, status, result, trace, support>>

Init ==
    /\ kernelAbi \in 0..MaxKernelAbi
    /\ layers = << >>
    /\ pc = "idle"
    /\ config = NoConfig
    /\ ruleset = DefaultRuleset
    /\ status = "none"
    /\ result = "none"
    /\ trace = << >>
    /\ support = None


(***************************************************************************)
(* is_landlock_supported                                                   *)
(***************************************************************************)
\* match abi { ABI::V1 => 1, ..., ABI::V5 => 5, _ => 0 }
AbiNumber(abi) == IF abi \in 1..5 THEN abi ELSE 0

\* the value is_landlock_supported returns on a kernel of the given level
LandlockSupport(kernel) ==
    IF HandleAccessFsOk(kernel)
      THEN LET abi_version == AbiNumber(LibAbi)
               network_supported == abi_version >= NetAbi
           IN  [supported |-> TRUE,
                abi_version |-> abi_version,
                network_supported |-> network_supported,
                message |-> IF network_supported
                              THEN "Landlock ABI available (with network rules)"
                              ELSE "Landlock ABI available"]
      ELSE [supported |-> FALSE,
            abi_version |-> 0,
            network_supported |-> FALSE,
            message |-> "Landlock not available"]

\* a probe that goes on to create and commit the ruleset it declared
is_landlock_supported_commits ==
    /\ pc = "idle"
    /\ support' = Some(LandlockSupport(kernelAbi))
    /\ layers' = IF HandleAccessFsOk(kernelAbi)
                   THEN Append(layers, [DefaultRuleset EXCEPT
                                           !.handledFs = AccessFsFromAll(LibAbi)])
                   ELSE layers
    /\ UNCHANGED <<kernelAbi, pc, config, ruleset, status, result, trace>>

is_landlock_supported ==
    /\ pc = "idle"
    /\ support' = Some(LandlockSupport(kernelAbi))
    /\ UNCHANGED <<kernelAbi, layers, pc, config, ruleset, status, result, trace>>

(***************************************************************************)
(* add_fs_rule and the three loops of apply_sandbox                        *)
(***************************************************************************)
\* add_fs_rule(&mut ruleset, path, access): the ruleset afterwards and
\* whether the helper returned Ok
add_fs_rule(rs, path, access) ==
    IF PathState(path) = "absent"
      THEN [ruleset |-> rs, ok |-> TRUE]
    ELSE IF PathState(path) = "unopenable"
      THEN [ruleset |-> rs, ok |-> FALSE]
    ELSE [ruleset |-> [rs EXCEPT !.rules[path] = @ \cup access], ok |-> TRUE]

\* a loop that gives up at the first path that yields no rule
RECURSIVE AddRules_stop(_, _, _)
AddRules_stop(rs, paths, access) ==
    IF paths = << >> THEN rs
    ELSE IF PathState(Head(paths)) # "present" THEN rs
    ELSE AddRules_stop(add_fs_rule(rs, Head(paths), access).ruleset,
                       Tail(paths), access)

\* for path in paths { if let Err(e) = add_fs_rule(..) { eprintln!(..) } }
RECURSIVE AddRules(_, _, _)
AddRules(rs, paths, access) ==
    IF paths = << >> THEN rs
    ELSE AddRules(add_fs_rule(rs, Head(paths), access).ruleset, Tail(paths), access)

\* the add_fs_rule calls one loop makes, in order
RoleCalls(cfg, role, access) ==
    [i \in 1..Len(RoleList(cfg, role)) |->
        Call("add_fs_rule", RoleList(cfg, role)[i], role,
             add_fs_rule(DefaultRuleset, RoleList(cfg, role)[i], access).ok)]

(***************************************************************************)
(* restrict_self and the match on its status                               *)
(***************************************************************************)
\* a commit that replaces the layers in force by the new one
RestrictSelf_replace(ls, rs) == << rs >>

\* the enforcement state after the kernel has committed a ruleset: the new
\* layer is stacked on the ones already in force.  A layer is recorded as
\* the binding built it; under PartiallyEnforced the kernel may leave part
\* of it inactive.
RestrictSelf(ls, rs) == Append(ls, rs)

\* a match that only logs NotEnforced, like the other two arms
StatusResult_silent(outcome) ==
    CASE outcome = "Err" -> "Err: failed to apply sandbox"
      [] OTHER           -> "Ok"

\* the match on status.ruleset, and the map_err on restrict_self's error
StatusResult(outcome) ==
    CASE outcome = "Err"         -> "Err: failed to apply sandbox"
      [] outcome = "NotEnforced" -> "Err: sandbox could not be enforced"
      [] OTHER                   -> "Ok"

\* a filesystem operation is permitted when every layer that handles the
\* right grants it on the path
FsPermitted(ls, p, r) ==
    \A i \in 1..Len(ls) : r \notin ls[i].handledFs \/ r \in ls[i].rules[p]

\* a TCP bind/connect is permitted when every layer that handles the
\* network family holds a rule for the port
NetPermitted(ls, port) ==
    \A i \in 1..Len(ls) : ~ls[i].handledNet \/ port \in ls[i].netRules

(***************************************************************************)
(* apply_sandbox, step by step                                             *)
(***************************************************************************)
\* declarations that propagate a rejected network family with `?`
DeclareFamilies_strict(kernel) ==
    IF ~HandleAccessFsOk(kernel)
      THEN [ok |-> FALSE, attr |-> DefaultRuleset,
            calls |-> << Call("handle_access", "fs", "-", FALSE) >>,
            err |-> "Err: failed to create ruleset"]
    ELSE IF ~HandleAccessNetOk(kernel)
      THEN [ok |-> FALSE, attr |-> DefaultRuleset,
            calls |-> << Call("handle_access", "fs", "-", TRUE),
                         Call("handle_access", "net", "-", FALSE) >>,
            err |-> "Err: failed to handle net access"]
    ELSE [ok |-> TRUE,
          attr |-> [DefaultRuleset EXCEPT !.handledNet = TRUE,
                                          !.handledFs = AccessFsFromAll(LibAbi)],
          calls |-> << Call("handle_access", "fs", "-", TRUE),
                       Call("handle_access", "net", "-", TRUE),
                       Call("handle_access", "fs", "-", TRUE) >>,
          err |-> "none"]

\* the declarations of apply_sandbox on a kernel of the given level:
\*   Ruleset::default().handle_access(AccessFs::from_all(abi))?
\*   if let Ok(r) = ruleset_attr.clone().handle_access(AccessNet::from_all(abi))
\*       { ruleset_attr = r.handle_access(AccessFs::from_all(abi))? }
DeclareFamilies(kernel) ==
    LET fs  == HandleAccessFsOk(kernel)
        net == HandleAccessNetOk(kernel)
        attr == [DefaultRuleset EXCEPT !.handledFs = AccessFsFromAll(LibAbi)]
    IN  IF ~fs
          THEN [ok |-> FALSE, attr |-> DefaultRuleset,
                calls |-> << Call("handle_access", "fs", "-", FALSE) >>,
                err |-> "Err: failed to create ruleset"]
        ELSE IF ~net
          THEN [ok |-> TRUE, attr |-> attr,
                calls |-> << Call("handle_access", "fs", "-", TRUE),
                             Call("handle_access", "net", "-", FALSE) >>,
                err |-> "none"]
        ELSE IF fs
          THEN [ok |-> TRUE,
                attr |-> [attr EXCEPT !.handledNet = TRUE,
                                      !.handledFs = @ \cup AccessFsFromAll(LibAbi)],
                calls |-> << Call("handle_access", "fs", "-", TRUE),
                             Call("handle_access", "net", "-", TRUE),
                             Call("handle_access", "fs", "-", TRUE) >>,
                err |-> "none"]
        ELSE [ok |-> FALSE, attr |-> DefaultRuleset,
              calls |-> << Call("handle_access", "fs", "-", TRUE),
                           Call("handle_access", "net", "-", TRUE),
                           Call("handle_access", "fs", "-", FALSE) >>,
              err |-> "Err: failed to handle fs access"]

\* entry of apply_sandbox(config), up to the declarations
apply_sandbox_declare(cfg) ==
    /\ pc = "idle"
    /\ config' = cfg
    /\ status' = "none"
    /\ LET d == DeclareFamilies(kernelAbi)
       IN  /\ trace' = d.calls
           /\ ruleset' = d.attr
           /\ result' = d.err
           /\ pc' = IF d.ok THEN "create" ELSE "idle"
    /\ UNCHANGED <<kernelAbi, layers, support>>

\* a create step that logs the error and carries on
apply_sandbox_create_ignoring ==
    /\ pc = "create"
    /\ \E outcome \in CreateOutcomes :
          trace' = Append(trace, Call("create", "-", "-", outcome = "Ok"))
    /\ pc' = "read"
    /\ UNCHANGED <<kernelAbi, layers, config, ruleset, status, result, support>>

\* ruleset_attr.create()?
apply_sandbox_create ==
    /\ pc = "create"
    /\ \E outcome \in CreateOutcomes :
          /\ trace' = Append(trace, Call("create", "-", "-", outcome = "Ok"))
          /\ IF outcome = "Ok"
               THEN /\ pc' = "read"
                    /\ UNCHANGED <<ruleset, result>>
               ELSE /\ pc' = "idle"
                    /\ ruleset' = DefaultRuleset
                    /\ result' = "Err: failed to create ruleset"
    /\ UNCHANGED <<kernelAbi, layers, config, status, support>>

\* the loop over fs_config.read
apply_sandbox_read ==
    /\ pc = "read"
    /\ ruleset' = AddRules(ruleset, RoleList(config, "read"), ReadAccess)
    /\ trace' = trace \o RoleCalls(config, "read", ReadAccess)
    /\ pc' = "write"
    /\ UNCHANGED <<kernelAbi, layers, config, status, result, support>>

\* the loop over fs_config.write
apply_sandbox_write ==
    /\ pc = "write"
    /\ ruleset' = AddRules(ruleset, RoleList(config, "write"), WriteAccess)
    /\ trace' = trace \o RoleCalls(config, "write", WriteAccess)
    /\ pc' = "execute"
    /\ UNCHANGED <<kernelAbi, layers, config, status, result, support>>

\* the loop over fs_config.execute
apply_sandbox_execute ==
    /\ pc = "execute"
    /\ ruleset' = AddRules(ruleset, RoleList(config, "execute"), ExecuteAccess)
    /\ trace' = trace \o RoleCalls(config, "execute", ExecuteAccess)
    /\ pc' = "commit"
    /\ UNCHANGED <<kernelAbi, layers, config, status, result, support>>

\* ruleset.restrict_self()?, the match on the status, Ok(())
apply_sandbox_commit ==
    /\ pc = "commit"
    /\ \E outcome \in CommitOutcomes :
          /\ status' = outcome
          /\ layers' = IF outcome \in {"FullyEnforced", "PartiallyEnforced"}
                         THEN RestrictSelf(layers, ruleset)
                         ELSE layers
          /\ result' = StatusResult(outcome)
          /\ trace' = Append(trace, Call("restrict_self", "-", "-", outcome # "Err"))
    /\ ruleset' = DefaultRuleset
    /\ pc' = "idle"
    /\ UNCHANGED <<kernelAbi, config, support>>

apply_sandbox_steps ==
    \/ apply_sandbox_create
    \/ apply_sandbox_read
    \/ apply_sandbox_write
    \/ apply_sandbox_execute
    \/ apply_sandbox_commit

(***************************************************************************)
(* Spec: a process that probes any number of times and applies one policy. *)
(***************************************************************************)
apply_sandbox_once ==
    /\ trace = << >>
    /\ \E cfg \in SandboxConfigs(MaxEntries) : apply_sandbox_declare(cfg)

Next ==
    \/ is_landlock_supported
    \/ apply_sandbox_once
    \/ apply_sandbox_steps

Spec == Init /\ [][Next]_vars

(***************************************************************************)
(* StackSpec: a process that applies policies repeatedly, each commit      *)
(* stacking a layer on the ones in force.                                  *)
(***************************************************************************)
apply_sandbox_again ==
    /\ Len(layers) < MaxLayers
    /\ \E cfg \in StackConfigs : apply_sandbox_declare(cfg)

StackNext ==
    \/ is_landlock_supported
    \/ apply_sandbox_again
    \/ apply_sandbox_steps

StackSpec == Init /\ [][StackNext]_vars

(***************************************************************************)
(* Properties.                                                             *)
(***************************************************************************)
\* the ruleset committed last
Committed == layers[Len(layers)]

\* the last apply_sandbox call has returned
Returned == pc = "idle" /\ trace # << >>

\* restrict_self returned Ok with a status that binds the process
Enforced == status \in {"FullyEnforced", "PartiallyEnforced"}

\* the roles under which the configuration lists path p
ConfiguredRoles(p) == {role \in Roles : p \in Range(RoleList(config, role))}

\* C1: when ruleset creation and restrict_self both succeed, apply_sandbox
\* returns an error exactly when the status is NotEnforced; FullyEnforced
\* and PartiallyEnforced return Ok, for every configuration.
C1_NotEnforcedIsFatal ==
    (pc = "idle" /\ status \in {"FullyEnforced", "PartiallyEnforced", "NotEnforced"})
        => /\ status = "NotEnforced" => result = "Err: sandbox could not be enforced"
           /\ status # "NotEnforced" => result = "Ok"

C1_Witness ==
    /\ pc = "idle"
    /\ status = "NotEnforced"
    /\ result = "Err: sandbox could not be enforced"
    /\ IsSome(config.fs)

\* C2: a path of fs.read, fs.write or fs.execute that does not exist or
\* cannot be opened does not fail the call: once the kernel enforces the
\* ruleset the result is Ok, the committed ruleset holds no rule for that
\* path, and every resolvable path of the lists has its rule.
C2_MissingPathSkipped ==
    (Returned /\ Enforced)
        => /\ result = "Ok"
           /\ \A role \in Roles : \A p \in Range(RoleList(config, role)) :
                 IF PathState(p) = "present"
                   THEN Committed.rules[p] # {}
                   ELSE Committed.rules[p] = {}

C2_Witness ==
    /\ Returned
    /\ Enforced
    /\ result = "Ok"
    /\ RoleList(config, "read") = << "/absent", "/work" >>
    /\ RoleList(config, "write") = << "/locked" >>
    /\ Committed.rules["/work"] # {}
    /\ Committed.rules["/absent"] = {}

\* C3: a call of is_landlock_supported changes nothing but its own return
\* value: the enforcement state, the kernel and everything apply_sandbox
\* reads or writes are as before, and no restrict_self is recorded.
C3_ProbeLeavesStateAlone ==
    [][support' # support
          => UNCHANGED <<kernelAbi, layers, pc, config, ruleset, status, result, trace>>]_vars

C3_Witness ==
    /\ IsSome(support)
    /\ Unwrap(support).supported
    /\ Returned
    /\ result = "Ok"
    /\ Len(layers) = 1

\* the filesystem rights the model distinguishes
AllRights == AccessFsFromAll(LibAbi)

SpecAccess(role) ==
    CASE role = "read"  -> {"ReadFile", "ReadDir"}
      [] role = "write" -> {"ReadFile", "ReadDir", "WriteFile", "RemoveFile",
                            "RemoveDir", "MakeChar", "MakeDir", "MakeReg",
                            "MakeSock", "MakeFifo", "MakeBlock", "MakeSym",
                            "Truncate"}
      [] OTHER          -> {"Execute", "ReadFile"}

\* C5: for every existing path the rights of the committed ruleset on it
\* are exactly the union of the mappings of the roles it is configured
\* under; a path under read and write gets exactly the write set.
C5_ExactUnion ==
    (Returned /\ Enforced)
        => \A p \in Paths :
              PathState(p) = "present"
                 => /\ Committed.rules[p] =
                          UNION {SpecAccess(role) : role \in ConfiguredRoles(p)}
                    /\ ConfiguredRoles(p) = {"read", "write"}
                          => Committed.rules[p] = SpecAccess("write")

C5_Witness ==
    /\ Returned
    /\ Enforced
    /\ ConfiguredRoles("/work") = {"read", "write", "execute"}
    /\ Committed.rules["/work"] = SpecAccess("write") \cup {"Execute"}

\* the ports net.connect_ports allows: every port when the list is absent
\* or names port 0, the listed ports otherwise
AllowedPorts(net) ==
    IF ~IsSome(net.connect_ports) \/ 0 \in Range(Unwrap(net.connect_ports))
      THEN Ports
      ELSE Range(Unwrap(net.connect_ports))

\* C6: net.connect_ports is compiled into network rules: after a successful
\* apply whose ruleset handles the network family, the committed ruleset
\* holds a rule for each allowed port, a connect to a listed port is
\* permitted and one to an unlisted port is denied.
C6_PortsCompiled ==
    (Returned /\ result = "Ok" /\ IsSome(config.net) /\ Committed.handledNet)
        => /\ AllowedPorts(Unwrap(config.net)) \subseteq Committed.netRules
           /\ \A port \in Ports \ {0} :
                 NetPermitted(layers, port)
                    <=> port \in AllowedPorts(Unwrap(config.net))

\* C7: on a kernel that rejects the network family and accepts the
\* filesystem family the call does not abort at the declaration: it goes
\* on to create(), and when create() succeeds it processes every configured
\* path and commits a ruleset that handles the filesystem family only.
C7_NetworkFallback ==
    (Returned /\ kernelAbi >= 1 /\ kernelAbi < NetAbi)
        => /\ \E i \in 1..Len(trace) : trace[i].op = "create"
           /\ result # "Err: failed to handle fs access"
           /\ \A i \in 1..Len(trace) :
                 (trace[i].op = "create" /\ trace[i].ok)
                    => trace[Len(trace)].op = "restrict_self"
           /\ Enforced
                 => /\ Committed.handledFs = AccessFsFromAll(LibAbi)
                    /\ ~Committed.handledNet
                    /\ \A p \in Paths :
                          (PathState(p) = "present" /\ ConfiguredRoles(p) # {})
                             => Committed.rules[p] # {}

C7_Witness ==
    /\ Returned
    /\ kernelAbi = 3
    /\ IsSome(config.net)
    /\ status = "FullyEnforced"
    /\ result = "Ok"
    /\ ~Committed.handledNet
    /\ Committed.rules["/work"] # {}

\* C8: the ruleset always declares the filesystem family and declares the
\* network family only if config.net is present; with no net field the
\* network operations permitted before the apply stay permitted.
C8_NetworkOnlyIfRequested ==
    (Returned /\ result = "Ok")
        => /\ Committed.handledFs = AccessFsFromAll(LibAbi)
           /\ Committed.handledNet => IsSome(config.net)
           /\ ~IsSome(config.net)
                 => \A port \in Ports \ {0} : NetPermitted(layers, port)

\* C9: a supported report carries the feature level negotiated with the
\* running kernel, never more than the kernel provides, and reports
\* network support only from level 4 on; a failed declaration is reported
\* as supported = false, abi_version 0, network_supported false.
C9_NegotiatedLevel ==
    IsSome(support)
        => LET s == Unwrap(support)
           IN  /\ s.supported
                     => /\ s.abi_version <= kernelAbi
                        /\ s.abi_version >= 1
                        /\ s.network_supported => kernelAbi >= NetAbi
               /\ kernelAbi = 0
                     => /\ ~s.supported
                        /\ s.abi_version = 0
                        /\ ~s.network_supported

\* the add_fs_rule calls of the trace, as (path, role) pairs
IsAdd(c) == c.op = "add_fs_rule"
AddPairs ==
    LET adds == SelectSeq(trace, IsAdd)
    IN  [i \in 1..Len(adds) |-> << adds[i].arg, adds[i].role >>]

\* the configured paths in the order read list, write list, execute list
ListedPairs(role) ==
    [i \in 1..Len(RoleList(config, role)) |-> << RoleList(config, role)[i], role >>]
ExpectedPairs == ListedPairs("read") \o ListedPairs("write") \o ListedPairs("execute")

IsPrefix(a, b) == Len(a) <= Len(b) /\ a = SubSeq(b, 1, Len(a))

====
